---------------------------- MODULE Spec2Model ----------------------------
(***************************************************************************)
(* Player-Role-Dashboard: the name normaliser and search index of          *)
(* src/app.py, the neighbour finder, probability ranker and centroid store *)
(* of src/utils/data_loader.py, the attribute ranking of                   *)
(* src/utils/cluster_mapping.py and the display transform of               *)
(* src/utils/visualizations.py.                                            *)
(*                                                                         *)
(* Text is a sequence of Unicode code points (naturals).  Real numbers are *)
(* fixed point: z-scores in tenths, display values in thousandths.         *)
(***************************************************************************)
EXTENDS Integers, Sequences, FiniteSets, TLC

VARIABLES
    text,           \* normalize_text: the argument
    normalized,     \* normalize_text(text)
    renormalized,   \* normalize_text(normalize_text(text))
    npc,            \* "input" -> "once" -> "twice"
    players_df,     \* the player table: a sequence of rows
    selected_clusters,  \* the sidebar's cluster filter
    search_query,   \* the text of the search box
    player_names,   \* app.py:215
    search_index,   \* app.py:218, name -> normalized name
    normalized_query,   \* app.py:243
    matching_players,   \* app.py:239-249
    runs,           \* script runs evaluated so far
    player_row,     \* find_similar_players: the target player
    n_similar,      \* find_similar_players: n
    similar,        \* find_similar_players: the returned frame
    fpc,            \* "input" -> "done"
    prob_row,       \* get_top_cluster_probabilities: the player's row
    top_probs,      \* get_top_cluster_probabilities: the returned list
    rpc,            \* "input" -> "done"
    centroids_df,   \* the centroid table: rows of cluster, attr, z
    centroids_dict, \* get_centroids_dict(centroids_df)
    cluster_arg,    \* get_top_attributes_for_cluster: cluster_id
    n_top,          \* get_top_attributes_for_cluster: n
    top_attrs,      \* get_top_attributes_for_cluster: the returned list
    cpc,            \* "input" -> "built" -> "ranked"
    zscore,         \* the value handed to the display transform
    displayed,      \* its image on the 0-20 scale
    dpc,            \* "input" -> "done"
    sort_ties,      \* how the build's default sort leaves equal keys
    similar_unfiltered, \* find_similar_players over the unfiltered table
    player_attrs,   \* create_radar_chart: the player's mapping
    cluster_attrs,  \* create_radar_chart: the centroid's mapping or None
    radar_fig,      \* create_radar_chart: the returned figure
    gpc,            \* "input" -> "done"
    heap,           \* the objects of a session: snapshot and last result
    last_call,      \* the core operation called last and the row it took
    session_state,  \* st.session_state: selected_player, search_query
    buttons,        \* the suggestion buttons the last run rendered
    clicked,        \* the suggestion whose click the last run saw or reran for
    rerun,          \* the last run ended in st.rerun()
    card            \* what the last run rendered in the card column

normVars == <<text, normalized, renormalized, npc>>
searchVars == <<players_df, selected_clusters, search_query, player_names,
                search_index, normalized_query, matching_players, runs>>

findVars ==
    <<player_row, n_similar, similar, fpc, sort_ties, similar_unfiltered>>

rankVars == <<prob_row, top_probs, rpc>>

centroidVars ==
    <<centroids_df, centroids_dict, cluster_arg, n_top, top_attrs, cpc>>
displayVars == <<zscore, displayed, dpc>>

radarVars == <<player_attrs, cluster_attrs, radar_fig, gpc>>
heapVars == <<heap, last_call>>
sessionVars == <<session_state, buttons, clicked, rerun, card>>

vars == <<normVars, searchVars, findVars, rankVars, centroidVars, displayVars,
          radarVars, heapVars, sessionVars>>

-----------------------------------------------------------------------------
(* Bounds *)

MaxLen == 3          \* longest enumerated input text of normalize_text
MaxNames == 2        \* rows of the player table searched by name
MaxQueryLen == 1     \* longest enumerated search text
MaxRuns == 1         \* script runs per behaviour
MaxPlayers == 3      \* rows of the player table searched for neighbours
MaxN == 3            \* largest n asked of find_similar_players
MaxProb == 2         \* membership scores range over 0..MaxProb
MaxRows == 3         \* rows of the centroid table
MaxTop == 3          \* largest n asked of get_top_attributes_for_cluster
MaxZ == 100          \* display inputs range over -MaxZ..MaxZ tenths
MaxFilterRows == 3   \* rows of the player table filtered by cluster
MaxK == 2            \* largest n compared over the filtered and the full table
MaxCardRows == 2     \* rows of the player table behind the card
MaxSessionRows == 3  \* rows of the player table behind the page
MaxKeyed == 2        \* preferred attributes in a mapping handed to the chart
MaxCentroidAttrs == 1    \* attributes in a centroid handed to the chart
MaxExtra == 13       \* other attributes in a mapping handed to the chart

-----------------------------------------------------------------------------
(* Generic sequence helpers *)

Strings(S, n) == UNION {[1..k -> S] : k \in 0..n}

Range(s) == {s[i] : i \in 1..Len(s)}

-----------------------------------------------------------------------------
(* NameNormalizer: normalize_text, src/app.py:19-67 *)

NaN == <<-1>>        \* pandas' missing value: the one input that is not a string
Unset == <<-2>>      \* a result not yet computed

\* The manual table, in source order: <<special, replacement>>.
special_char_map == <<
    <<216, 79>>, <<248, 111>>,      \* O-slash
    <<214, 79>>, <<246, 111>>,      \* O-diaeresis
    <<220, 85>>, <<252, 117>>,      \* U-diaeresis
    <<196, 65>>, <<228, 97>>,       \* A-diaeresis
    <<197, 65>>, <<229, 97>>,       \* A-ring
    <<201, 69>>, <<233, 101>>,      \* E-acute
    <<200, 69>>, <<232, 101>>,      \* E-grave
    <<202, 69>>, <<234, 101>>,      \* E-circumflex
    <<203, 69>>, <<235, 101>>,      \* E-diaeresis
    <<205, 73>>, <<237, 105>>,      \* I-acute
    <<204, 73>>, <<236, 105>>,      \* I-grave
    <<206, 73>>, <<238, 105>>,      \* I-circumflex
    <<207, 73>>, <<239, 105>>,      \* I-diaeresis
    <<211, 79>>, <<243, 111>>,      \* O-acute
    <<210, 79>>, <<242, 111>>,      \* O-grave
    <<212, 79>>, <<244, 111>>,      \* O-circumflex
    <<213, 79>>, <<245, 111>>,      \* O-tilde
    <<218, 85>>, <<250, 117>>,      \* U-acute
    <<217, 85>>, <<249, 117>>,      \* U-grave
    <<219, 85>>, <<251, 117>>,      \* U-circumflex
    <<199, 67>>, <<231, 99>>,       \* C-cedilla
    <<209, 78>>, <<241, 110>>,      \* N-tilde
    <<350, 83>>, <<351, 115>>,      \* S-cedilla
    <<304, 73>>, <<305, 105>>,      \* I-dot-above, dotless i
    <<286, 71>>, <<287, 103>> >>    \* G-breve

\* what the loop of lines 60-61 makes of one character: the replacement of
\* the table entry whose special character it is.  No replacement is itself
\* a special character, so an entry never rewrites the output of another.
ReplaceChar(c) ==
    LET hits == {k \in 1..Len(special_char_map) : special_char_map[k][1] = c}
    IN  IF hits = {} THEN c
        ELSE special_char_map[CHOOSE k \in hits : \A j \in hits : k <= j][2]

\* lines 60-61: str.replace of every table entry over the text
ReplaceSpecial(s) == [i \in 1..Len(s) |-> ReplaceChar(s[i])]

\* Canonical (full) decompositions of the Unicode character database for the
\* characters of the model (the table's letters, A-acute, C-caron,
\* O-slash-acute, O-circumflex-dot-below); any other character is its own
\* decomposition.  O-slash, o-slash and the dotless i have none.
Decomposition(c) ==
    CASE c = 214 -> <<79, 776>>       [] c = 246 -> <<111, 776>>       [] c = 220 -> <<85, 776>>
      [] c = 252 -> <<117, 776>>       [] c = 196 -> <<65, 776>>       [] c = 228 -> <<97, 776>>
      [] c = 197 -> <<65, 778>>       [] c = 229 -> <<97, 778>>       [] c = 201 -> <<69, 769>>
      [] c = 233 -> <<101, 769>>       [] c = 200 -> <<69, 768>>       [] c = 232 -> <<101, 768>>
      [] c = 202 -> <<69, 770>>       [] c = 234 -> <<101, 770>>       [] c = 203 -> <<69, 776>>
      [] c = 235 -> <<101, 776>>       [] c = 205 -> <<73, 769>>       [] c = 237 -> <<105, 769>>
      [] c = 204 -> <<73, 768>>       [] c = 236 -> <<105, 768>>       [] c = 206 -> <<73, 770>>
      [] c = 238 -> <<105, 770>>       [] c = 207 -> <<73, 776>>       [] c = 239 -> <<105, 776>>
      [] c = 211 -> <<79, 769>>       [] c = 243 -> <<111, 769>>       [] c = 210 -> <<79, 768>>
      [] c = 242 -> <<111, 768>>       [] c = 212 -> <<79, 770>>       [] c = 244 -> <<111, 770>>
      [] c = 213 -> <<79, 771>>       [] c = 245 -> <<111, 771>>       [] c = 218 -> <<85, 769>>
      [] c = 250 -> <<117, 769>>       [] c = 217 -> <<85, 768>>       [] c = 249 -> <<117, 768>>
      [] c = 219 -> <<85, 770>>       [] c = 251 -> <<117, 770>>       [] c = 199 -> <<67, 807>>
      [] c = 231 -> <<99, 807>>       [] c = 209 -> <<78, 771>>       [] c = 241 -> <<110, 771>>
      [] c = 350 -> <<83, 807>>       [] c = 351 -> <<115, 807>>       [] c = 304 -> <<73, 775>>
      [] c = 286 -> <<71, 774>>       [] c = 287 -> <<103, 774>>       [] c = 193 -> <<65, 769>>
      [] c = 225 -> <<97, 769>>       [] c = 268 -> <<67, 780>>       [] c = 269 -> <<99, 780>>
      [] c = 510 -> <<216, 769>>       [] c = 511 -> <<248, 769>>       [] c = 7896 -> <<79, 803, 770>>
      [] c = 7897 -> <<111, 803, 770>>
      [] OTHER -> <<c>>

\* Canonical combining class: 0 for starters.
CombiningClass(c) ==
    CASE c = 803 -> 220                  \* dot below
      [] c = 807 -> 202                  \* cedilla
      [] c \in 768..879 -> 230           \* the other marks used here: above
      [] OTHER -> 0

RECURSIVE CanonicalOrder(_)
\* Canonical ordering: exchange adjacent marks while a higher class precedes
\* a lower non-zero one.
CanonicalOrder(s) ==
    LET bad == {i \in 1..(Len(s) - 1) :
                    /\ CombiningClass(s[i + 1]) > 0
                    /\ CombiningClass(s[i]) > CombiningClass(s[i + 1])}
    IN  IF bad = {} THEN s
        ELSE LET i == CHOOSE j \in bad : \A k \in bad : j <= k
             IN  CanonicalOrder([s EXCEPT ![i] = s[i + 1], ![i + 1] = s[i]])

RECURSIVE Decompose(_)
\* the decompositions of the characters of s, concatenated
Decompose(s) ==
    IF s = <<>> THEN <<>>
    ELSE IF Len(s) = 1 THEN Decomposition(s[1])
    ELSE LET mid == Len(s) \div 2
         IN  Decompose(SubSeq(s, 1, mid)) \o Decompose(SubSeq(s, mid + 1, Len(s)))

\* unicodedata.normalize('NFD', s)
NFD(s) == CanonicalOrder(Decompose(s))

\* unicodedata.category(c) = 'Mn' (the combining diacritical marks block)
IsMn(c) == c \in 768..879

\* line 66: drop the combining marks
StripMarks(s) == SelectSeq(s, LAMBDA c : ~IsMn(c))

\* str.lower() of one character (full case mapping: U+0130 gives two)
Lower(c) ==
    CASE c \in 65..90 -> <<c + 32>>
      [] c \in (192..222) \ {215} -> <<c + 32>>
      [] c = 304 -> <<105, 775>>
      [] c \in {268, 286, 350, 510, 7896} -> <<c + 1>>
      [] OTHER -> <<c>>

RECURSIVE LowerStr(_)
\* str.lower(): the lower-case mappings of the characters of s, concatenated
LowerStr(s) ==
    IF s = <<>> THEN <<>>
    ELSE IF Len(s) = 1 THEN Lower(s[1])
    ELSE LET mid == Len(s) \div 2
         IN  LowerStr(SubSeq(s, 1, mid)) \o LowerStr(SubSeq(s, mid + 1, Len(s)))

\* the normaliser without the final lower-casing
normalize_text_keepcase(t) ==
    IF t = NaN \/ t = <<>> THEN <<>>
    ELSE StripMarks(NFD(ReplaceSpecial(t)))

normalize_text(t) ==
    IF t = NaN \/ t = <<>> THEN <<>>
    ELSE LowerStr(StripMarks(NFD(ReplaceSpecial(t))))

-----------------------------------------------------------------------------
(* Inputs of the normaliser *)

\* O, o, e, O-slash, o-slash, e-acute, O-slash-acute, I-dot-above,
\* combining acute
NormAlphabet == {79, 111, 101, 216, 248, 233, 510, 304, 769}

Odegaard_slashed == <<216, 100, 101, 103, 97, 97, 114, 100>>   \* "Ødegaard"
odegaard == <<111, 100, 101, 103, 97, 97, 114, 100>>           \* "odegaard"
Jose_acute == <<74, 111, 115, 233>>                            \* "José"
jose == <<106, 111, 115, 101>>                                 \* "jose"

NormInputs ==
    Strings(NormAlphabet, MaxLen)
        \cup {NaN, Odegaard_slashed, odegaard, Jose_acute, jose}

NormInit ==
    /\ text \in NormInputs
    /\ normalized = Unset
    /\ renormalized = Unset
    /\ npc = "input"

NormIdle ==
    /\ text = <<>>
    /\ normalized = Unset
    /\ renormalized = Unset
    /\ npc = "idle"

\* normalized = normalize_text(text)
Normalize ==
    /\ npc = "input"
    /\ normalized' = normalize_text(text)
    /\ npc' = "once"
    /\ UNCHANGED <<text, renormalized>>

\* the normaliser applied to its own output
NormalizeAgain ==
    /\ npc = "once"
    /\ renormalized' = normalize_text(normalized)
    /\ npc' = "twice"
    /\ UNCHANGED <<text, normalized>>

-----------------------------------------------------------------------------
(* SearchIndex: src/app.py:200-249 *)

\* A row of the player table as read from the file.  Club, CA and PA are
\* carried along by every operation and decide nothing; they are left out.
Row(name, cluster, x, y) ==
    [Name |-> name, role_cluster |-> cluster, pc1 |-> x, pc2 |-> y]

\* read_csv labels the rows in file order; filtering and sorting keep a
\* row's label (`index`)
WithIndex(rows) ==
    [i \in 1..Len(rows) |-> [index |-> i] @@ rows[i]]

\* Python's order on strings: lexicographic by code point
StrLess(a, b) ==
    \E k \in 1..(Len(a) + 1) :
        /\ k <= Len(b)
        /\ \A i \in 1..(k - 1) : a[i] = b[i]
        /\ (k = Len(a) + 1 \/ a[k] < b[k])

RECURSIVE InsertName(_, _)
InsertName(sorted, name) ==
    IF sorted = <<>> THEN <<name>>
    ELSE IF StrLess(name, Head(sorted)) THEN <<name>> \o sorted
    ELSE <<Head(sorted)>> \o InsertName(Tail(sorted), name)

RECURSIVE SortedNames(_)
\* sorted(list of str): stable
SortedNames(names) ==
    IF names = <<>> THEN <<>>
    ELSE InsertName(SortedNames(SubSeq(names, 1, Len(names) - 1)),
                    names[Len(names)])

\* the filter losing the last of the rows it selects
FilterClusters_droplast(df, selected) ==
    LET kept == SelectSeq(df, LAMBDA r : r.role_cluster \in selected)
    IN  SubSeq(kept, 1, Len(kept) - 1)

\* players_df[players_df['role_cluster'].isin(selected)]
FilterClusters(df, selected) ==
    SelectSeq(df, LAMBDA r : r.role_cluster \in selected)

\* Python's  q in s  for strings
IsSubstring(q, s) ==
    \E i \in 0..(Len(s) - Len(q)) : SubSeq(s, i + 1, i + Len(q)) = q

\* {name: normalize_text(name) for name in player_names}
BuildSearchIndex(names) == [n \in Range(names) |-> normalize_text(n)]

\* line 243, evaluated only under  if search_query:
NormalizedQuery(query) ==
    IF query # <<>> THEN normalize_text(query) ELSE Unset

\* the filter comparing the raw query with the index
MatchingPlayers_rawquery(query, names, index) ==
    IF query # <<>>
    THEN SelectSeq(names, LAMBDA n : IsSubstring(query, index[n]))
    ELSE <<>>

\* the filter without the  if search_query:  guard
MatchingPlayers_unguarded(query, names, index) ==
    SelectSeq(names, LAMBDA n : IsSubstring(normalize_text(query), index[n]))

\* lines 239-249
MatchingPlayers(query, names, index) ==
    IF query # <<>>
    THEN SelectSeq(names,
                   LAMBDA n : IsSubstring(NormalizedQuery(query), index[n]))
    ELSE <<>>

NamePool == {Odegaard_slashed, Jose_acute, <<510, 101>>, <<79, 101>>}
ClusterPool == {0, 1}
SearchRows == {Row(n, c, 0, 0) : n \in NamePool, c \in ClusterPool}
\* o, O-slash, o-slash-acute, combining acute
QueryAlphabet == {111, 216, 511, 769}
QueryPool ==
    Strings(QueryAlphabet, MaxQueryLen) \cup {odegaard, jose, Jose_acute}

SearchIdle ==
    /\ players_df = <<>>
    /\ selected_clusters = {}
    /\ search_query = <<>>
    /\ player_names = <<>>
    /\ search_index = <<>>
    /\ normalized_query = Unset
    /\ matching_players = <<>>
    /\ runs = 0

SearchInit ==
    /\ players_df \in {WithIndex(t) : t \in Strings(SearchRows, MaxNames)}
    /\ selected_clusters = ClusterPool
    /\ search_query = <<>>
    /\ player_names = <<>>
    /\ search_index = <<>>
    /\ normalized_query = Unset
    /\ matching_players = <<>>
    /\ runs = 0

\* One evaluation of lines 193-249 with the widgets holding the filter
\* `selected` and the text `query`.
Search(selected, query) ==
    LET filtered_players_df == FilterClusters(players_df, selected)
        names == SortedNames([i \in 1..Len(filtered_players_df) |->
                                  filtered_players_df[i].Name])
        index == BuildSearchIndex(names)
    IN  /\ runs < MaxRuns
        /\ runs' = runs + 1
        /\ selected_clusters' = selected
        /\ search_query' = query
        /\ player_names' = names
        /\ search_index' = index
        /\ normalized_query' = NormalizedQuery(query)
        /\ matching_players' = MatchingPlayers(query, names, index)
        /\ UNCHANGED players_df

-----------------------------------------------------------------------------
(* NeighborFinder: find_similar_players, src/utils/data_loader.py:35-67 *)

DistScale == 10      \* distances are held in tenths of a coordinate unit

\* np.sqrt on a non-negative number, rounded down to the fixed-point grid
Sqrt(x) ==
    CHOOSE r \in 0..(x * DistScale * DistScale) :
        /\ r * r <= x * DistScale * DistScale
        /\ (r + 1) * (r + 1) > x * DistScale * DistScale

\* lines 55-58 for one row
Distance(r, player_pc1, player_pc2) ==
    Sqrt((r.pc1 - player_pc1) * (r.pc1 - player_pc1)
            + (r.pc2 - player_pc2) * (r.pc2 - player_pc2))

RECURSIVE InsertByDistance(_, _)
InsertByDistance(sorted, r) ==
    IF sorted = <<>> THEN <<r>>
    ELSE IF r.distance < Head(sorted).distance THEN <<r>> \o sorted
    ELSE <<Head(sorted)>> \o InsertByDistance(Tail(sorted), r)

RECURSIVE SortByDistance(_)
\* ascending by distance, equal distances in frame order
SortByDistance(frame) ==
    IF frame = <<>> THEN <<>>
    ELSE InsertByDistance(SortByDistance(SubSeq(frame, 1, Len(frame) - 1)),
                          frame[Len(frame)])

\* the first n rows in frame order, unsorted
NSmallest_unsorted(n, frame) ==
    IF n <= 0 THEN <<>>
    ELSE SubSeq(frame, 1, IF n < Len(frame) THEN n ELSE Len(frame))

RECURSIVE InsertBeforeEqual(_, _)
InsertBeforeEqual(sorted, r) ==
    IF sorted = <<>> THEN <<r>>
    ELSE IF r.distance <= Head(sorted).distance THEN <<r>> \o sorted
    ELSE <<Head(sorted)>> \o InsertBeforeEqual(Tail(sorted), r)

RECURSIVE SortTiesReversed(_)
\* ascending by distance, equal distances in reverse frame order
SortTiesReversed(frame) ==
    IF frame = <<>> THEN <<>>
    ELSE InsertBeforeEqual(SortTiesReversed(SubSeq(frame, 1, Len(frame) - 1)),
                           frame[Len(frame)])

\* The orders a sort that is not stable may leave equal keys in.
SortTies == {"kept", "reversed"}

\* sort_values('distance') with the default kind='quicksort'.  numpy does not
\* promise that quicksort keeps equal keys in order; what it does with them
\* is fixed by the build (sort_ties), not by the call.
SortValues(frame) ==
    IF sort_ties = "kept" THEN SortByDistance(frame)
    ELSE SortTiesReversed(frame)

\* DataFrame.nsmallest(n, 'distance'), keep='first'.  With n below the
\* number of rows pandas takes the rows up to the n-th smallest value,
\* orders them by a stable sort and keeps the first n; with n >= the number
\* of rows it returns sort_values('distance').head(n).
NSmallest(n, frame) ==
    IF n <= 0 THEN <<>>
    ELSE IF n >= Len(frame) THEN SortValues(frame)
    ELSE SubSeq(SortByDistance(frame), 1, n)

\* the finder without the exclusion of the target's own name
find_similar_players_withself(target, df, n) ==
    LET same_cluster ==
            SelectSeq(df, LAMBDA r : r.role_cluster = target.role_cluster)
        with_distance ==
            [i \in 1..Len(same_cluster) |->
                [distance |-> Distance(same_cluster[i], target.pc1, target.pc2)]
                    @@ same_cluster[i]]
        nearest == NSmallest(n, with_distance)
    IN  [i \in 1..Len(nearest) |->
            [index |-> nearest[i].index, Name |-> nearest[i].Name,
             role_cluster |-> nearest[i].role_cluster,
             distance |-> nearest[i].distance]]

find_similar_players(target, df, n) ==
    LET player_cluster == target.role_cluster
        player_pc1 == target.pc1
        player_pc2 == target.pc2
        same_cluster == SelectSeq(df, LAMBDA r : r.role_cluster = player_cluster)
        with_distance ==
            [i \in 1..Len(same_cluster) |->
                [distance |-> Distance(same_cluster[i], player_pc1, player_pc2)]
                    @@ same_cluster[i]]
        others ==
            IF "Name" \in DOMAIN target
            THEN SelectSeq(with_distance, LAMBDA r : r.Name # target.Name)
            ELSE with_distance
        nearest == NSmallest(n, others)
    IN  [i \in 1..Len(nearest) |->
            [index |-> nearest[i].index, Name |-> nearest[i].Name,
             role_cluster |-> nearest[i].role_cluster,
             distance |-> nearest[i].distance]]

PlayerA == <<65>>    \* "A"
PlayerB == <<66>>    \* "B"
PointPool == {<<0, 0>>, <<1, 0>>, <<0, 2>>}
FindRows ==
    {Row(name, c, p[1], p[2]) :
        name \in {PlayerA, PlayerB}, c \in ClusterPool, p \in PointPool}

\* The target as the app passes it (a row of the table, app.py:323) or the
\* same data as a mapping without a Name.
Targets(df) ==
    {df[i] : i \in 1..Len(df)}
        \cup {[role_cluster |-> df[i].role_cluster, pc1 |-> df[i].pc1,
               pc2 |-> df[i].pc2] : i \in 1..Len(df)}

FindIdle ==
    /\ player_row = Unset
    /\ n_similar = 0
    /\ similar = Unset
    /\ fpc = "idle"
    /\ sort_ties = "kept"
    /\ similar_unfiltered = Unset

FindInit ==
    /\ players_df \in {WithIndex(t) : t \in Strings(FindRows, MaxPlayers)}
    /\ player_row \in Targets(players_df)
    /\ n_similar \in 0..MaxN
    /\ similar = Unset
    /\ fpc = "input"
    /\ sort_ties \in SortTies
    /\ similar_unfiltered = Unset
    /\ selected_clusters = ClusterPool
    /\ search_query = <<>>
    /\ player_names = <<>>
    /\ search_index = <<>>
    /\ normalized_query = Unset
    /\ matching_players = <<>>
    /\ runs = 0

\* similar = find_similar_players(player_row, players_df, n)
FindSimilar ==
    /\ fpc = "input"
    /\ similar' = find_similar_players(player_row, players_df, n_similar)
    /\ fpc' = "done"
    /\ UNCHANGED <<player_row, n_similar, sort_ties, similar_unfiltered>>

\* The neighbours as the card computes them, over the filtered table
\* (app.py:201, 362), and over the table as loaded.
FilterPoints == {<<0, 0>>, <<1, 0>>}
FilterRows ==
    {Row(name, c, p[1], p[2]) :
        name \in {PlayerA, PlayerB}, c \in ClusterPool, p \in FilterPoints}

FilterInit ==
    /\ players_df \in {WithIndex(t) : t \in Strings(FilterRows, MaxFilterRows)}
    /\ selected_clusters \in SUBSET ClusterPool
    /\ player_row \in Range(FilterClusters(players_df, selected_clusters))
    /\ n_similar \in 0..MaxK
    /\ similar = Unset
    /\ similar_unfiltered = Unset
    /\ fpc = "input"
    /\ sort_ties \in SortTies
    /\ search_query = <<>>
    /\ player_names = <<>>
    /\ search_index = <<>>
    /\ normalized_query = Unset
    /\ matching_players = <<>>
    /\ runs = 0

\* find_similar_players(player_row, filtered_players_df, n)
FindSimilarFiltered ==
    /\ fpc = "input"
    /\ similar' = find_similar_players(
                      player_row,
                      FilterClusters(players_df, selected_clusters), n_similar)
    /\ fpc' = "filtered"
    /\ UNCHANGED <<player_row, n_similar, sort_ties, similar_unfiltered>>

\* find_similar_players(player_row, players_df, n)
FindSimilarUnfiltered ==
    /\ fpc = "filtered"
    /\ similar_unfiltered' =
            find_similar_players(player_row, players_df, n_similar)
    /\ fpc' = "done"
    /\ UNCHANGED <<player_row, n_similar, sort_ties, similar>>

-----------------------------------------------------------------------------
(* ClusterProbabilityRanker: get_top_cluster_probabilities,                *)
(* src/utils/data_loader.py:70-80                                          *)

\* [f'cluster_{i}_prob' for i in range(5)]
prob_cols == <<"cluster_0_prob", "cluster_1_prob", "cluster_2_prob",
               "cluster_3_prob", "cluster_4_prob">>

\* Python sorts by key on a decorated list: <<key, item>> pairs here.
RECURSIVE InsertDescending(_, _)
\* x goes behind every element whose key is not smaller: equal keys stay in
\* their order of arrival
InsertDescending(sorted, x) ==
    IF sorted = <<>> THEN <<x>>
    ELSE IF x[1] > Head(sorted)[1] THEN <<x>> \o sorted
    ELSE <<Head(sorted)>> \o InsertDescending(Tail(sorted), x)

RECURSIVE InsertAscending(_, _)
InsertAscending(sorted, x) ==
    IF sorted = <<>> THEN <<x>>
    ELSE IF x[1] < Head(sorted)[1] THEN <<x>> \o sorted
    ELSE <<Head(sorted)>> \o InsertAscending(Tail(sorted), x)

RECURSIVE SortAscending(_)
\* list.sort(key=...) without reverse=True
SortAscending(keyed) ==
    IF keyed = <<>> THEN <<>>
    ELSE InsertAscending(SortAscending(SubSeq(keyed, 1, Len(keyed) - 1)),
                         keyed[Len(keyed)])

RECURSIVE SortDescending(_)
\* list.sort(key=..., reverse=True) and sorted(..., reverse=True): stable
SortDescending(keyed) ==
    IF keyed = <<>> THEN <<>>
    ELSE InsertDescending(SortDescending(SubSeq(keyed, 1, Len(keyed) - 1)),
                          keyed[Len(keyed)])

\* the items of a decorated list
Undecorate(keyed) == [i \in 1..Len(keyed) |-> keyed[i][2]]

\* Python's  list[:n]
SliceTo(list, n) ==
    LET stop == IF n >= 0 THEN n ELSE Len(list) + n
    IN  SubSeq(list, 1, IF stop < Len(list) THEN stop ELSE Len(list))

\* the list sorted ascending and then turned round: equal scores end up in
\* descending cluster id
SortProbs_reversed(probs) ==
    LET keyed == [i \in 1..Len(probs) |-> <<probs[i][2], probs[i]>>]
        ascending == Undecorate(SortAscending(keyed))
    IN  [i \in 1..Len(ascending) |-> ascending[Len(ascending) + 1 - i]]

\* line 79: probs.sort(key=lambda x: x[1], reverse=True)
SortProbs(probs) ==
    LET keyed == [i \in 1..Len(probs) |-> <<probs[i][2], probs[i]>>]
    IN  Undecorate(SortDescending(keyed))

\* the ranker sorting without reverse=True
get_top_cluster_probabilities_ascending(row) ==
    LET probs == [i \in 1..Len(prob_cols) |-> <<i - 1, row[prob_cols[i]]>>]
        keyed == [i \in 1..Len(probs) |-> <<probs[i][2], probs[i]>>]
    IN  SliceTo(Undecorate(SortAscending(keyed)), 3)

get_top_cluster_probabilities(row) ==
    LET probs == [i \in 1..Len(prob_cols) |-> <<i - 1, row[prob_cols[i]]>>]
    IN  SliceTo(SortProbs(probs), 3)

RankIdle ==
    /\ prob_row = Unset
    /\ top_probs = Unset
    /\ rpc = "idle"

RankInit ==
    /\ prob_row \in [Range(prob_cols) -> 0..MaxProb]
    /\ top_probs = Unset
    /\ rpc = "input"

\* top_probs = get_top_cluster_probabilities(player_row)
TopProbabilities ==
    /\ rpc = "input"
    /\ top_probs' = get_top_cluster_probabilities(prob_row)
    /\ rpc' = "done"
    /\ UNCHANGED prob_row

-----------------------------------------------------------------------------
(* ClusterCentroidStore: get_centroids_dict,                               *)
(* src/utils/data_loader.py:23-32                                          *)

\* A Python dict is the sequence of its <<key, value>> items in insertion
\* order.
DictHas(d, k) == \E i \in 1..Len(d) : d[i][1] = k

DictGet(d, k) == d[CHOOSE i \in 1..Len(d) : d[i][1] = k][2]

\* d[k] = v keeping the place of a key already held, with the first value
DictSet_keepfirst(d, k, v) ==
    IF DictHas(d, k) THEN d ELSE Append(d, <<k, v>>)

\* d[k] = v: a key already held keeps its place and takes the new value
DictSet(d, k, v) ==
    IF DictHas(d, k)
    THEN [i \in 1..Len(d) |-> IF d[i][1] = k THEN <<k, v>> ELSE d[i]]
    ELSE Append(d, <<k, v>>)

RECURSIVE DictFromPairs(_)
\* dict(pairs)
DictFromPairs(pairs) ==
    IF pairs = <<>> THEN <<>>
    ELSE LET last == pairs[Len(pairs)]
         IN  DictSet(DictFromPairs(SubSeq(pairs, 1, Len(pairs) - 1)),
                     last[1], last[2])

RECURSIVE Unique(_)
\* Series.unique(): the distinct values in order of first appearance
Unique(values) ==
    IF values = <<>> THEN <<>>
    ELSE LET before == Unique(SubSeq(values, 1, Len(values) - 1))
             last == values[Len(values)]
         IN  IF last \in Range(before) THEN before ELSE Append(before, last)

\* read_csv leaves float('nan') in an empty cell.  The nan of a numeric
\* column is held as a number no datum takes, the nan of the attr column as
\* a code no attribute has.
NaNNumber == -1000
NaNCode == "nan"

\* the element-wise == of a column with a value: nan equals nothing
SeriesEq(value, other) == value = other /\ value # NaNNumber

RECURSIVE BuildCentroidsFrom(_, _, _)
\* the loop of lines 29-31 over the cluster ids from position i on
BuildCentroidsFrom(df, clusters, i) ==
    IF i > Len(clusters) THEN <<>>
    ELSE LET cluster_id == clusters[i]
             cluster_data ==
                SelectSeq(df, LAMBDA r : SeriesEq(r.cluster, cluster_id))
             zipped == [j \in 1..Len(cluster_data) |->
                            <<cluster_data[j].attr, cluster_data[j].z>>]
         IN  <<<<cluster_id, DictFromPairs(zipped)>>>>
                \o BuildCentroidsFrom(df, clusters, i + 1)

get_centroids_dict(df) ==
    BuildCentroidsFrom(df, Unique([i \in 1..Len(df) |-> df[i].cluster]), 1)

-----------------------------------------------------------------------------
(* AttributeProfiler: get_top_attributes_for_cluster,                      *)
(* src/utils/cluster_mapping.py:34-49, and the display transform of        *)
(* create_radar_chart, src/utils/visualizations.py:187-203                 *)

Abs(x) == IF x < 0 THEN -x ELSE x

\* the ranking by signed z-score
get_top_attributes_for_cluster_signed(dict, cluster_id, n) ==
    IF ~DictHas(dict, cluster_id) THEN <<>>
    ELSE LET attrs == DictGet(dict, cluster_id)
             keyed == [i \in 1..Len(attrs) |-> <<attrs[i][2], attrs[i]>>]
         IN  SliceTo(Undecorate(SortDescending(keyed)), n)

get_top_attributes_for_cluster(dict, cluster_id, n) ==
    IF ~DictHas(dict, cluster_id) THEN <<>>
    ELSE LET attrs == DictGet(dict, cluster_id)
             keyed == [i \in 1..Len(attrs) |-> <<Abs(attrs[i][2]), attrs[i]>>]
             sorted_attrs == Undecorate(SortDescending(keyed))
         IN  SliceTo(sorted_attrs, n)

Max(a, b) == IF a >= b THEN a ELSE b
Min(a, b) == IF a <= b THEN a ELSE b

ZScale == 10             \* z-scores are held in tenths
DisplayScale == 1000     \* display values are held in thousandths
Slope == 333             \* 3.33 per unit of z: thousandths per tenth

\* the transform without the upper clamp
normalize_for_display_unclamped(v) ==
    Max(0, 10 * DisplayScale + v * Slope)

\* max(0, min(20, 10 + v * 3.33)), v in tenths, the result in thousandths
normalize_for_display(v) ==
    Max(0, Min(20 * DisplayScale, 10 * DisplayScale + v * Slope))

AttrPool == {"Pas", "Tck"}
ZPool == {-20, 15, 20}       \* -2.0, 1.5, 2.0
CentroidRows ==
    {[cluster |-> c, attr |-> a, z |-> z] :
        c \in ClusterPool, a \in AttrPool, z \in ZPool}

CentroidIdle ==
    /\ centroids_df = <<>>
    /\ centroids_dict = Unset
    /\ cluster_arg = 0
    /\ n_top = 0
    /\ top_attrs = Unset
    /\ cpc = "idle"

CentroidInit ==
    /\ centroids_df \in Strings(CentroidRows, MaxRows)
    /\ centroids_dict = Unset
    /\ cluster_arg = 0
    /\ n_top = 0
    /\ top_attrs = Unset
    /\ cpc = "input"

\* rows with an empty cell: no cluster, no attr, no z
MalformedRows ==
    {[cluster |-> NaNNumber, attr |-> "Pas", z |-> 15],
     [cluster |-> 0, attr |-> NaNCode, z |-> 15],
     [cluster |-> 0, attr |-> "Pas", z |-> NaNNumber]}

\* a table of complete rows with one malformed row put in
MalformedInit ==
    /\ centroids_df \in
            UNION {{SubSeq(t, 1, i) \o <<bad>> \o SubSeq(t, i + 1, Len(t)) :
                        i \in 0..Len(t), bad \in MalformedRows} :
                    t \in Strings(CentroidRows, MaxRows - 1)}
    /\ centroids_dict = Unset
    /\ cluster_arg = 0
    /\ n_top = 0
    /\ top_attrs = Unset
    /\ cpc = "input"

\* centroids_dict = get_centroids_dict(centroids_df), app.py:182
BuildCentroids ==
    /\ cpc = "input"
    /\ centroids_dict' = get_centroids_dict(centroids_df)
    /\ cpc' = "built"
    /\ UNCHANGED <<centroids_df, cluster_arg, n_top, top_attrs>>

\* top_attrs = get_top_attributes_for_cluster(centroids_dict, cluster_id, n)
TopAttributes(cluster_id, n) ==
    /\ cpc = "built"
    /\ cluster_arg' = cluster_id
    /\ n_top' = n
    /\ top_attrs' = get_top_attributes_for_cluster(centroids_dict, cluster_id, n)
    /\ cpc' = "ranked"
    /\ UNCHANGED <<centroids_df, centroids_dict>>

DisplayIdle ==
    /\ zscore = 0
    /\ displayed = Unset
    /\ dpc = "idle"

DisplayInit ==
    /\ zscore \in (-MaxZ)..MaxZ
    /\ displayed = Unset
    /\ dpc = "input"

\* one element of player_values_normalized / cluster_values_normalized
Display ==
    /\ dpc = "input"
    /\ displayed' = normalize_for_display(zscore)
    /\ dpc' = "done"
    /\ UNCHANGED zscore

-----------------------------------------------------------------------------
(* AttributeProfiler: the data assembly of create_radar_chart,             *)
(* src/utils/visualizations.py:152-212                                     *)

key_attrs == <<"Pas", "Tec", "Vis", "Dec", "Fir", "Dri",
               "Fin", "Tck", "Mar", "Pos", "Ant", "Cmp">>

\* cluster_attrs=None, the default of the parameter
NoAttrs == <<<<"None">>>>

\* list(d.keys())
DictKeys(d) == [i \in 1..Len(d) |-> d[i][1]]

\* d.get(k, default)
DictGetDefault(d, k, default) ==
    IF DictHas(d, k) THEN DictGet(d, k) ELSE default

\* lines 170 only: the preferred attributes the player has
AvailableAttrs_nofallback(attrs) ==
    SelectSeq(key_attrs, LAMBDA a : DictHas(attrs, a))

\* lines 170-174
AvailableAttrs(attrs) ==
    LET available_attrs == SelectSeq(key_attrs, LAMBDA a : DictHas(attrs, a))
    IN  IF available_attrs = <<>>
        THEN SliceTo(DictKeys(attrs), 12)
        ELSE available_attrs

\* the truth value of an Optional[Dict]:  if cluster_attrs:
Truthy(d) == d # NoAttrs /\ d # <<>>

\* go.Scatterpolar(r=..., theta=theta, name=name): the values of `source`
\* along theta (lines 183, 202), transformed (lines 190, 203)
Trace(name, theta, source) ==
    [name |-> name,
     theta |-> theta,
     r |-> [i \in 1..Len(theta) |->
                normalize_for_display(DictGetDefault(source, theta[i], 0))]]

\* the chart whose centroid trace runs along the centroid's own attributes
create_radar_chart_ownaxes(p_attrs, c_attrs) ==
    LET theta == AvailableAttrs(p_attrs)
    IN  IF theta = <<>>
        THEN [annotation |-> "No attribute data available", data |-> <<>>]
        ELSE [annotation |-> "",
              data |-> <<Trace("Player", theta, p_attrs)>>
                        \o (IF Truthy(c_attrs)
                            THEN <<Trace("Cluster Centroid",
                                         DictKeys(c_attrs), c_attrs)>>
                            ELSE <<>>)]

\* The figure: its annotation and its traces in the order they are added.
create_radar_chart(p_attrs, c_attrs) ==
    LET theta == AvailableAttrs(p_attrs)
    IN  IF theta = <<>>
        THEN [annotation |-> "No attribute data available", data |-> <<>>]
        ELSE [annotation |-> "",
              data |-> <<Trace("Player", theta, p_attrs)>>
                        \o (IF Truthy(c_attrs)
                            THEN <<Trace("Cluster Centroid", theta, c_attrs)>>
                            ELSE <<>>)]

\* attribute codes outside key_attrs: the rest of fm_attrs (app.py:387-388)
\* and further codes of the data set
extra_codes == <<"Cnt", "Det", "Wor", "Sta", "Pac", "Str", "Acc", "Agi", "Bal",
                 "Jum", "Nat", "Agg", "Bra", "Cor", "Cro", "Fla", "Hea", "Lon">>

\* -4.0, 1.5 and 4.0: below, inside and above the range the clamp leaves alone
RadarValues == {-40, 15, 40}
RadarPairs == {<<a, v>> : a \in AttrPool, v \in RadarValues}

\* the first m extra codes, their values running through RadarValues
ExtraAttrs(m) ==
    [i \in 1..Min(m, Len(extra_codes)) |->
        <<extra_codes[i],
          IF i % 3 = 1 THEN -40 ELSE IF i % 3 = 2 THEN 15 ELSE 40>>]

PlayerAttrsPool ==
    {DictFromPairs(keyed \o ExtraAttrs(m)) :
        keyed \in Strings(RadarPairs, MaxKeyed), m \in 0..MaxExtra}

ClusterAttrsPool ==
    {NoAttrs} \cup
    {DictFromPairs(pairs) :
        pairs \in Strings(RadarPairs \cup {<<"Cnt", 15>>}, MaxCentroidAttrs)}

RadarIdle ==
    /\ player_attrs = <<>>
    /\ cluster_attrs = NoAttrs
    /\ radar_fig = Unset
    /\ gpc = "idle"

RadarInit ==
    /\ player_attrs \in PlayerAttrsPool
    /\ cluster_attrs \in ClusterAttrsPool
    /\ radar_fig = Unset
    /\ gpc = "input"

\* radar_fig = create_radar_chart(player_attrs, cluster_attrs=cluster_attrs)
Radar ==
    /\ gpc = "input"
    /\ radar_fig' = create_radar_chart(player_attrs, cluster_attrs)
    /\ gpc' = "done"
    /\ UNCHANGED <<player_attrs, cluster_attrs>>

-----------------------------------------------------------------------------
(* The loaded snapshot and the operations of the player card,              *)
(* src/app.py:186, 323-401.  Frames, dicts and lists are objects: `heap`   *)
(* holds them by reference, and a write through a reference changes the    *)
(* object for every holder of that reference.                              *)

\* a new object goes behind the last; its reference is the new length
Alloc(h, obj) == Append(h, obj)

PlayersRef == 1          \* players_df
CentroidsRef == 2        \* centroids_dict
ResultRef == 3           \* the value the last call returned

\* line 52 as  same_cluster = players_df : no new frame
SameCluster_alias(h, df, player_cluster) == [heap |-> h, ref |-> df]

\* data_loader.py:52: the boolean indexing makes a new frame, .copy() another
SameCluster(h, df, player_cluster) ==
    LET masked ==
            Alloc(h, SelectSeq(h[df],
                               LAMBDA r : r.role_cluster = player_cluster))
        copied == Alloc(masked, masked[Len(masked)])
    IN  [heap |-> copied, ref |-> Len(copied)]

\* data_loader.py:55-58: the frame behind `ref` gets the column 'distance'
SetDistance(h, ref, player_pc1, player_pc2) ==
    LET frame == h[ref]
    IN  [h EXCEPT ![ref] =
            [i \in 1..Len(frame) |->
                [distance |-> Distance(frame[i], player_pc1, player_pc2)]
                    @@ frame[i]]]

\* find_similar_players on the heap: the heap after the call, the returned
\* frame last
find_similar_players_heap(h, df, target, n) ==
    LET same_cluster == SameCluster(h, df, target.role_cluster)
        h1 == SetDistance(same_cluster.heap, same_cluster.ref,
                          target.pc1, target.pc2)
        h2 == IF "Name" \in DOMAIN target
              THEN Alloc(h1, SelectSeq(h1[same_cluster.ref],
                                       LAMBDA r : r.Name # target.Name))
              ELSE h1
        others == IF "Name" \in DOMAIN target THEN Len(h2)
                  ELSE same_cluster.ref
        h3 == Alloc(h2, NSmallest(n, h2[others]))
        similar_rows == h3[Len(h3)]
    IN  Alloc(h3, [i \in 1..Len(similar_rows) |->
                    [index |-> similar_rows[i].index,
                     Name |-> similar_rows[i].Name,
                     role_cluster |-> similar_rows[i].role_cluster,
                     distance |-> similar_rows[i].distance]])

\* get_top_cluster_probabilities on the heap: probs is a new list, sorted in
\* place, and the slice another
get_top_cluster_probabilities_heap(h, row) ==
    LET h1 == Alloc(h, [i \in 1..Len(prob_cols) |->
                            <<i - 1, row[prob_cols[i]]>>])
        probs == Len(h1)
        h2 == [h1 EXCEPT ![probs] = SortProbs(h1[probs])]
    IN  Alloc(h2, SliceTo(h2[probs], 3))

\* get_top_attributes_for_cluster on the heap: sorted() and the slice are
\* new lists
get_top_attributes_for_cluster_heap(h, dict, cluster_id, n) ==
    Alloc(h, get_top_attributes_for_cluster(h[dict], cluster_id, n))

fm_attrs == <<"Pas", "Tec", "Vis", "Dec", "Fir", "Dri", "Fin",
              "Tck", "Mar", "Pos", "Ant", "Cmp", "Cnt", "Det",
              "Wor", "Sta", "Pac", "Str">>

\* the card handing the chart ratings standardised about 10
PlayerCardAttrs_standardized(row) ==
    LET present == SelectSeq(fm_attrs, LAMBDA a : a \in DOMAIN row)
    IN  [i \in 1..Len(present) |->
            <<present[i], ((row[present[i]] - 10) * ZScale) \div 3>>]

\* app.py:391: the ratings of the row as they stand in the table; a rating
\* r is the number r.0, r * ZScale tenths
PlayerCardAttrs(row) ==
    LET present == SelectSeq(fm_attrs, LAMBDA a : a \in DOMAIN row)
    IN  [i \in 1..Len(present) |-> <<present[i], row[present[i]] * ZScale>>]

\* app.py:391-401 on the heap: player_attrs is a new dict, cluster_attrs the
\* centroid's own dict or a new empty one, the figure a new object
radar_chart_heap(h, dict, row) ==
    LET h1 == Alloc(h, PlayerCardAttrs(row))
        primary_cluster == row.role_cluster
    IN  Alloc(h1, create_radar_chart(
                      h1[Len(h1)],
                      DictGetDefault(h1[dict], primary_cluster, <<>>)))

\* Pas and Tck ratings on the 1-20 scale
CardRatings == {<<3, 12>>, <<4, 20>>, <<12, 4>>}

\* the membership columns of a player of cluster c
ProbColumns(c) ==
    [col \in Range(prob_cols) |-> IF col = prob_cols[c + 1] THEN MaxProb ELSE 0]

CardRows ==
    {Row(name, c, IF name = PlayerA THEN 0 ELSE 1, 0)
        @@ [Pas |-> ratings[1], Tck |-> ratings[2]] @@ ProbColumns(c) :
        name \in {PlayerA, PlayerB}, c \in ClusterPool, ratings \in CardRatings}

CardStores ==
    {get_centroids_dict(t) :
        t \in {<<>>,
               <<[cluster |-> 0, attr |-> "Pas", z |-> 15]>>,
               <<[cluster |-> 0, attr |-> "Pas", z |-> 15],
                 [cluster |-> 0, attr |-> "Tck", z |-> -20],
                 [cluster |-> 1, attr |-> "Tck", z |-> 20]>>}}

HeapIdle ==
    /\ heap = <<>>
    /\ last_call = [op |-> "idle", row |-> 0]

\* load_data(), app.py:186
CardInit ==
    /\ \E table \in {WithIndex(t) : t \in Strings(CardRows, MaxCardRows)},
          store \in CardStores :
            heap = <<table, store, <<>>>>
    /\ last_call = [op |-> "none", row |-> 0]

\* what is left of the heap when the call has returned
Returned_heap(h) == <<h[PlayersRef], h[CentroidsRef], h[Len(h)]>>

\* app.py:362 for the player of row i
CallFindSimilar(i) ==
    /\ heap' = Returned_heap(find_similar_players_heap(
                                heap, PlayersRef, heap[PlayersRef][i], 5))
    /\ last_call' = [op |-> "find_similar_players", row |-> i]

\* app.py:350 for the player of row i
CallTopProbabilities(i) ==
    /\ heap' = Returned_heap(get_top_cluster_probabilities_heap(
                                heap, heap[PlayersRef][i]))
    /\ last_call' = [op |-> "get_top_cluster_probabilities", row |-> i]

\* pages/2_Cluster_Info.py:131
CallTopAttributes(cluster_id, n) ==
    /\ heap' = Returned_heap(get_top_attributes_for_cluster_heap(
                                heap, CentroidsRef, cluster_id, n))
    /\ last_call' = [op |-> "get_top_attributes_for_cluster", row |-> 0]

\* app.py:391-401 for the player of row i
CallRadar(i) ==
    /\ heap' = Returned_heap(radar_chart_heap(
                                heap, CentroidsRef, heap[PlayersRef][i]))
    /\ last_call' = [op |-> "create_radar_chart", row |-> i]

-----------------------------------------------------------------------------
(* The selection logic of the page, src/app.py:192-296 and 318-406.  One   *)
(* action is one run of the script from top to bottom, or to st.rerun().   *)

\* Python's None where a name is expected
None == <<-3>>

\* sorted(players_df['role_cluster'].unique()), the options of the filter
AllClusters(df) == {df[i].role_cluster : i \in 1..Len(df)}

\* lines 271-272 without the assignment to selected_player
ClickSelect_queryonly(state, player_name) ==
    [state EXCEPT !.search_query = player_name]

\* lines 271-272: the button of player_name was clicked
ClickSelect(state, player_name) ==
    [state EXCEPT !.selected_player = player_name,
                  !.search_query = player_name]

\* lines 241-292 keeping whatever was selected before
Revalidate_keep(selected_player, query, matching) ==
    IF query # <<>> /\ Len(matching) = 1 THEN matching[1]
    ELSE selected_player

\* lines 241-292 when no button was clicked: the value selected_player is
\* left with
Revalidate(selected_player, query, matching) ==
    IF query # <<>>
    THEN IF matching # <<>>
         THEN IF Len(matching) = 1 THEN matching[1]
              ELSE IF selected_player \in Range(matching) THEN selected_player
              ELSE None
         ELSE None
    ELSE None

\* lines 318-406: what the card column shows
RenderCard(selected_player, filtered_players_df) ==
    IF selected_player # None /\ selected_player # <<>>
    THEN LET player_data ==
                SelectSeq(filtered_players_df,
                          LAMBDA r : r.Name = selected_player)
         IN  IF player_data # <<>> THEN "card" ELSE "not_found"
    ELSE "placeholder"

\* "O" with a stroke, "Oe" and "e" with an acute: normalised o, oe and e
SessionNames == {<<216>>, <<79, 101>>, <<233>>}
SessionRows == {Row(n, c, 0, 0) : n \in SessionNames, c \in ClusterPool}

\* tables with a Name per row that no other row has
SessionTables ==
    {WithIndex(t) : t \in {u \in Strings(SessionRows, MaxSessionRows) :
        \A i, j \in 1..Len(u) : u[i].Name = u[j].Name => i = j}}

\* what the search box may hold: nothing, "o", "e", or a name
SessionTexts == {<<>>, <<111>>, <<101>>} \cup SessionNames

SessionIdle ==
    /\ session_state = [selected_player |-> None, search_query |-> <<>>]
    /\ buttons = <<>>
    /\ clicked = None
    /\ rerun = FALSE
    /\ card = "none"

\* the page before its first run: the filter holds its default, all
\* clusters; lines 221-224 give the session its two keys
SessionInit ==
    /\ players_df \in SessionTables
    /\ selected_clusters = AllClusters(players_df)
    /\ search_query = <<>>
    /\ player_names = <<>>
    /\ search_index = <<>>
    /\ normalized_query = Unset
    /\ matching_players = <<>>
    /\ runs = 0
    /\ SessionIdle

\* What the browser can send with the request for a run.  The first run
\* sees the widgets' defaults.  The run st.rerun() asks for sees no click;
\* its text is the box's own or the one just written to the session (the
\* widget is rebuilt from `value`), unless an edit of the user has come in.
\* A click needs the button of that position on the page.
Sendable(selected, entered, click) ==
    /\ selected \subseteq AllClusters(players_df)
    /\ entered \in SessionTexts
    /\ (card = "none" /\ ~rerun) =>
            selected = selected_clusters /\ entered = <<>> /\ click = 0
    /\ rerun => click = 0
    /\ click \in 0..Len(buttons)

\* One run of the script with the filter holding `selected`, the search box
\* returning `entered` and the button of position `click` reported clicked
\* (0: none).
ScriptRun(selected, entered, click) ==
    LET filtered_players_df == FilterClusters(players_df, selected)
        names == SortedNames([i \in 1..Len(filtered_players_df) |->
                                  filtered_players_df[i].Name])
        index == BuildSearchIndex(names)
        matching == MatchingPlayers(entered, names, index)
        shown == SliceTo(matching, 9)
        typed == [session_state EXCEPT !.search_query = entered]
        found_click == click > 0 /\ click <= Len(shown)
        selected_player ==
            Revalidate(typed.selected_player, entered, matching)
    IN  /\ Sendable(selected, entered, click)
        /\ selected_clusters' = selected
        /\ search_query' = entered
        /\ player_names' = names
        /\ search_index' = index
        /\ normalized_query' = NormalizedQuery(entered)
        /\ matching_players' = matching
        /\ IF found_click
           THEN /\ session_state' = ClickSelect(typed, shown[click])
                /\ clicked' = shown[click]
                /\ buttons' = SubSeq(shown, 1, click)
                /\ rerun' = TRUE
                /\ card' = "none"
           ELSE /\ session_state' =
                        [typed EXCEPT !.selected_player = selected_player]
                /\ clicked' = IF rerun THEN clicked ELSE None
                /\ buttons' = shown
                /\ rerun' = FALSE
                /\ card' = RenderCard(selected_player, filtered_players_df)
        /\ UNCHANGED <<players_df, runs>>

-----------------------------------------------------------------------------
(* Specifications *)

InitNormalize ==
    /\ NormInit
    /\ SearchIdle /\ FindIdle /\ RankIdle /\ CentroidIdle /\ DisplayIdle
    /\ RadarIdle /\ HeapIdle /\ SessionIdle

NormNext ==
    /\ Normalize \/ NormalizeAgain
    /\ UNCHANGED <<searchVars, findVars, rankVars, centroidVars, displayVars,
                  radarVars, heapVars, sessionVars>>

SpecNormalize == InitNormalize /\ [][NormNext]_vars

InitSearch ==
    /\ SearchInit
    /\ NormIdle /\ FindIdle /\ RankIdle /\ CentroidIdle /\ DisplayIdle
    /\ RadarIdle /\ HeapIdle /\ SessionIdle

SearchNext ==
    /\ \E selected \in SUBSET ClusterPool, query \in QueryPool :
            Search(selected, query)
    /\ UNCHANGED <<normVars, findVars, rankVars, centroidVars, displayVars,
                  radarVars, heapVars, sessionVars>>

SpecSearch == InitSearch /\ [][SearchNext]_vars

InitNeighbors ==
    /\ FindInit
    /\ NormIdle /\ RankIdle /\ CentroidIdle /\ DisplayIdle
    /\ RadarIdle /\ HeapIdle /\ SessionIdle

FindNext ==
    /\ FindSimilar
    /\ UNCHANGED <<normVars, searchVars, rankVars, centroidVars, displayVars,
                  radarVars, heapVars, sessionVars>>

SpecNeighbors == InitNeighbors /\ [][FindNext]_vars

InitRanker ==
    /\ RankInit
    /\ NormIdle /\ SearchIdle /\ FindIdle /\ CentroidIdle /\ DisplayIdle
    /\ RadarIdle /\ HeapIdle /\ SessionIdle

RankNext ==
    /\ TopProbabilities
    /\ UNCHANGED <<normVars, searchVars, findVars, centroidVars, displayVars,
                  radarVars, heapVars, sessionVars>>

SpecRanker == InitRanker /\ [][RankNext]_vars

InitCentroids ==
    /\ CentroidInit
    /\ NormIdle /\ SearchIdle /\ FindIdle /\ RankIdle /\ DisplayIdle
    /\ RadarIdle /\ HeapIdle /\ SessionIdle

CentroidNext ==
    /\ \/ BuildCentroids
       \/ \E cluster_id \in ClusterPool \cup {2}, n \in 0..MaxTop :
            TopAttributes(cluster_id, n)
    /\ UNCHANGED <<normVars, searchVars, findVars, rankVars, displayVars,
                  radarVars, heapVars, sessionVars>>

SpecCentroids == InitCentroids /\ [][CentroidNext]_vars

InitDisplay ==
    /\ DisplayInit
    /\ NormIdle /\ SearchIdle /\ FindIdle /\ RankIdle /\ CentroidIdle
    /\ RadarIdle /\ HeapIdle /\ SessionIdle

DisplayNext ==
    /\ Display
    /\ UNCHANGED <<normVars, searchVars, findVars, rankVars, centroidVars,
                  radarVars, heapVars, sessionVars>>

SpecDisplay == InitDisplay /\ [][DisplayNext]_vars

InitMalformed ==
    /\ MalformedInit
    /\ NormIdle /\ SearchIdle /\ FindIdle /\ RankIdle /\ DisplayIdle
    /\ RadarIdle /\ HeapIdle /\ SessionIdle

MalformedNext ==
    /\ BuildCentroids
    /\ UNCHANGED <<normVars, searchVars, findVars, rankVars, displayVars,
                  radarVars, heapVars, sessionVars>>

SpecMalformed == InitMalformed /\ [][MalformedNext]_vars

InitRadar ==
    /\ RadarInit
    /\ NormIdle /\ SearchIdle /\ FindIdle /\ RankIdle /\ CentroidIdle
    /\ DisplayIdle /\ HeapIdle /\ SessionIdle

RadarNext ==
    /\ Radar
    /\ UNCHANGED <<normVars, searchVars, findVars, rankVars, centroidVars,
                  displayVars, heapVars, sessionVars>>

SpecRadar == InitRadar /\ [][RadarNext]_vars

InitCard ==
    /\ CardInit
    /\ player_row = Unset /\ n_similar = 0 /\ similar = Unset /\ fpc = "idle"
    /\ sort_ties \in SortTies /\ similar_unfiltered = Unset
    /\ NormIdle /\ SearchIdle /\ RankIdle /\ CentroidIdle /\ DisplayIdle
    /\ RadarIdle /\ SessionIdle

CardNext ==
    /\ \/ \E i \in 1..Len(heap[PlayersRef]) : CallFindSimilar(i)
       \/ \E i \in 1..Len(heap[PlayersRef]) : CallTopProbabilities(i)
       \/ \E cluster_id \in ClusterPool \cup {2}, n \in 0..MaxTop :
            CallTopAttributes(cluster_id, n)
       \/ \E i \in 1..Len(heap[PlayersRef]) : CallRadar(i)
    /\ UNCHANGED <<normVars, searchVars, findVars, rankVars, centroidVars,
                  displayVars, radarVars, sessionVars>>

SpecCard == InitCard /\ [][CardNext]_vars

InitSession ==
    /\ SessionInit
    /\ NormIdle /\ FindIdle /\ RankIdle /\ CentroidIdle /\ DisplayIdle
    /\ RadarIdle /\ HeapIdle

SessionNext ==
    /\ \E selected \in SUBSET ClusterPool, entered \in SessionTexts,
          click \in 0..MaxSessionRows :
            ScriptRun(selected, entered, click)
    /\ UNCHANGED <<normVars, findVars, rankVars, centroidVars, displayVars,
                  radarVars, heapVars>>

SpecSession == InitSession /\ [][SessionNext]_vars

InitFilter ==
    /\ FilterInit
    /\ NormIdle /\ RankIdle /\ CentroidIdle /\ DisplayIdle
    /\ RadarIdle /\ HeapIdle /\ SessionIdle

FilterNext ==
    /\ FindSimilarFiltered \/ FindSimilarUnfiltered
    /\ UNCHANGED <<normVars, searchVars, rankVars, centroidVars, displayVars,
                  radarVars, heapVars, sessionVars>>

SpecFilter == InitFilter /\ [][FilterNext]_vars

-----------------------------------------------------------------------------
(* Properties *)

\* the names held by the filtered table of the last run
IndexedNames ==
    {players_df[i].Name : i \in {j \in 1..Len(players_df) :
                                    players_df[j].role_cluster \in selected_clusters}}

\* q occurs in s: s = u \o q \o v for some u and v
Occurs(q, s) ==
    \E from \in 1..(Len(s) + 1), to \in 0..Len(s) : SubSeq(s, from, to) = q

\* C1: for a non-empty query the returned names are exactly the indexed names
\* whose normal form contains the normal form of the query.
C1_QuerySoundComplete ==
    (runs > 0 /\ search_query # <<>>) =>
        Range(matching_players) =
            {n \in IndexedNames :
                Occurs(normalize_text(search_query), normalize_text(n))}

C1_Witness ==
    /\ runs > 0
    /\ search_query # <<>>
    /\ matching_players # <<>>
    /\ Range(matching_players) # IndexedNames

\* the table rows find_similar_players may return: the target's cluster,
\* another name than the target's
Candidates ==
    {i \in 1..Len(players_df) :
        /\ players_df[i].role_cluster = player_row.role_cluster
        /\ ("Name" \in DOMAIN player_row
                => players_df[i].Name # player_row.Name)}

\* exact squared Euclidean distance of table row i to the target
SquaredDistance(i) ==
    (players_df[i].pc1 - player_row.pc1) * (players_df[i].pc1 - player_row.pc1)
        + (players_df[i].pc2 - player_row.pc2) * (players_df[i].pc2 - player_row.pc2)

Returned == {similar[k].index : k \in 1..Len(similar)}

\* C2: no returned row carries the target's name and none is of another
\* cluster than the target's.
C2_NoSelfNoOtherCluster ==
    (fpc = "done") =>
        \A k \in 1..Len(similar) :
            /\ ("Name" \in DOMAIN player_row
                    => similar[k].Name # player_row.Name)
            /\ similar[k].role_cluster = player_row.role_cluster

C2_Witness ==
    /\ fpc = "done"
    /\ "Name" \in DOMAIN player_row
    /\ similar # <<>>
    /\ Len(similar) < n_similar
    /\ \E i \in 1..Len(players_df) :
            players_df[i].role_cluster # player_row.role_cluster
    /\ \E i \in 1..Len(players_df) :
            /\ players_df[i].Name = player_row.Name
            /\ players_df[i].role_cluster = player_row.role_cluster

\* C3: the result has min(n, number of candidates) rows, all of them distinct
\* candidates with their Euclidean distance, in non-decreasing distance, and
\* no candidate left out is nearer than a returned one.
C3_NearestInOrder ==
    (fpc = "done") =>
        /\ Len(similar) =
                IF n_similar < Cardinality(Candidates)
                THEN n_similar ELSE Cardinality(Candidates)
        /\ Returned \subseteq Candidates
        /\ Cardinality(Returned) = Len(similar)
        /\ \A k \in 1..Len(similar) :
                LET d == similar[k].distance
                    sq == SquaredDistance(similar[k].index) * DistScale * DistScale
                IN  d >= 0 /\ d * d <= sq /\ sq < (d + 1) * (d + 1)
        /\ \A k, l \in 1..Len(similar) :
                k < l => SquaredDistance(similar[k].index)
                            <= SquaredDistance(similar[l].index)
        /\ \A i \in Returned, j \in Candidates \ Returned :
                SquaredDistance(i) <= SquaredDistance(j)

C3_Witness ==
    /\ fpc = "done"
    /\ "Name" \in DOMAIN player_row
    /\ n_similar = 1
    /\ Len(similar) = 1
    /\ Cardinality(Candidates) = 2
    /\ similar[1].index = 3
    /\ \E j \in Candidates : SquaredDistance(j) > SquaredDistance(3)

\* the player's raw score for cluster c
Score(c) == prob_row[prob_cols[c + 1]]

RankedClusters == {top_probs[k][1] : k \in 1..Len(top_probs)}

\* C8: of the 5 membership scores the ranker returns 3 pairs with distinct
\* cluster ids, each with the player's raw score, in non-increasing score,
\* and no cluster left out scores strictly more than a returned one.
C8_TopThree ==
    (rpc = "done") =>
        /\ Len(top_probs) = 3
        /\ RankedClusters \subseteq 0..4
        /\ Cardinality(RankedClusters) = 3
        /\ \A k \in 1..3 : top_probs[k][2] = Score(top_probs[k][1])
        /\ \A k \in 1..2 : top_probs[k][2] >= top_probs[k + 1][2]
        /\ \A c \in (0..4) \ RankedClusters, k \in 1..3 :
                Score(c) <= top_probs[k][2]

C8_Witness ==
    /\ rpc = "done"
    /\ Score(0) < Score(1)
    /\ Score(1) < Score(4)
    /\ Score(2) = Score(0)
    /\ Score(3) = Score(1)
    /\ top_probs = <<<<4, Score(4)>>, <<1, Score(1)>>, <<3, Score(3)>>>>

\* C4 as stated: 0 maps to 10.0, 3 to 20.0, -3 to 0.0 and 10 to 20.0.
C4_AsStated ==
    (dpc = "done") =>
        /\ zscore = 0 => displayed = 10 * DisplayScale
        /\ zscore = 3 * ZScale => displayed = 20 * DisplayScale
        /\ zscore = -3 * ZScale => displayed = 0
        /\ zscore = 10 * ZScale => displayed = 20 * DisplayScale

\* C4 amended: 0 maps to 10.0, 3 to 19.99, -3 to 0.01 and 10 to 20.0
\* (the clamp acts from about 3.003 on).
C4_Amended ==
    (dpc = "done") =>
        /\ zscore = 0 => displayed = 10 * DisplayScale
        /\ zscore = 3 * ZScale => displayed = 19990
        /\ zscore = -3 * ZScale => displayed = 10
        /\ zscore = 10 * ZScale => displayed = 20 * DisplayScale

C4_Witness ==
    /\ dpc = "done"
    /\ zscore = 3 * ZScale
    /\ displayed = 19990

\* C5: normalising a normalised text changes nothing.
C5_Idempotent == (npc = "twice") => renormalized = normalized

C7_EmptyQueryEmptyResult ==
    (runs > 0 /\ search_query = <<>>) => matching_players = <<>>

C7_Witness ==
    /\ runs > 0
    /\ search_query = <<>>
    /\ player_names # <<>>
    /\ matching_players = <<>>

\* the items of the cluster asked for, in insertion order
AskedItems == DictGet(centroids_dict, cluster_arg)

\* item j is ranked before item i: larger absolute z-score, or the same and
\* inserted earlier
RankedBefore(j, i) ==
    \/ Abs(AskedItems[j][2]) > Abs(AskedItems[i][2])
    \/ Abs(AskedItems[j][2]) = Abs(AskedItems[i][2]) /\ j < i

RankOf(i) ==
    Cardinality({j \in 1..Len(AskedItems) : RankedBefore(j, i)}) + 1

RowsOf(c, a) ==
    {j \in 1..Len(centroids_df) :
        centroids_df[j].cluster = c /\ centroids_df[j].attr = a}

LastRowOf(c, a) == CHOOSE j \in RowsOf(c, a) : \A k \in RowsOf(c, a) : k <= j

\* C10: the store has one entry per cluster id of the rows; the entry of a
\* cluster holds exactly the attribute codes of its rows, each once, with
\* the z of the last row of that cluster and attribute.
C10_LastWriteWins ==
    (cpc \in {"built", "ranked"}) =>
        /\ {centroids_dict[i][1] : i \in 1..Len(centroids_dict)}
                = {centroids_df[j].cluster : j \in 1..Len(centroids_df)}
        /\ \A i, j \in 1..Len(centroids_dict) :
                centroids_dict[i][1] = centroids_dict[j][1] => i = j
        /\ \A i \in 1..Len(centroids_dict) :
                LET c == centroids_dict[i][1]
                    attrs == centroids_dict[i][2]
                IN  /\ {attrs[k][1] : k \in 1..Len(attrs)}
                            = {a \in AttrPool : RowsOf(c, a) # {}}
                    /\ \A k, l \in 1..Len(attrs) :
                            attrs[k][1] = attrs[l][1] => k = l
                    /\ \A k \in 1..Len(attrs) :
                            attrs[k][2] =
                                centroids_df[LastRowOf(c, attrs[k][1])].z

C10_Witness ==
    /\ cpc = "built"
    /\ Len(centroids_dict) = 2
    /\ \E c \in ClusterPool, a \in AttrPool :
            /\ Cardinality(RowsOf(c, a)) = 2
            /\ \E j \in RowsOf(c, a) :
                    centroids_df[j].z # centroids_df[LastRowOf(c, a)].z
            /\ DictGet(DictGet(centroids_dict, c), a)
                    = centroids_df[LastRowOf(c, a)].z

\* the attribute order of the chart and its two value sequences
ChartAxes == IF radar_fig.data = <<>> THEN <<>> ELSE radar_fig.data[1].theta

PlayerValues == IF radar_fig.data = <<>> THEN <<>> ELSE radar_fig.data[1].r

ClusterValues ==
    IF Len(radar_fig.data) < 2 THEN <<>> ELSE radar_fig.data[2].r

\* clamp(10 + v * 3.33, 0, 20) of the value of attribute a in mapping d, a
\* missing attribute counting as 0
Expected(d, a) ==
    LET held == {i \in 1..Len(d) : d[i][1] = a}
        v == IF held = {} THEN 0 ELSE d[CHOOSE i \in held : TRUE][2]
        y == 10 * DisplayScale + v * Slope
    IN  IF y < 0 THEN 0 ELSE IF y > 20 * DisplayScale THEN 20 * DisplayScale
        ELSE y

\* C11 as stated: the chart carries a player and a cluster sequence of the
\* same length over the same attributes, each element the clamped transform
\* of the value looked up in its source, a missing value counting as 0.
C11_AsStated ==
    (gpc = "done") =>
        /\ Len(PlayerValues) = Len(ChartAxes)
        /\ Len(ClusterValues) = Len(ChartAxes)
        /\ \A i \in 1..Len(ChartAxes) :
                /\ PlayerValues[i] = Expected(player_attrs, ChartAxes[i])
                /\ ClusterValues[i] = Expected(cluster_attrs, ChartAxes[i])
                /\ PlayerValues[i] \in 0..(20 * DisplayScale)
                /\ ClusterValues[i] \in 0..(20 * DisplayScale)

\* C11 amended: the player sequence is as stated; the cluster sequence is as
\* stated when the cluster mapping is given and not empty, and there is no
\* cluster sequence at all when it is empty or None.
C11_Amended ==
    (gpc = "done") =>
        /\ Len(PlayerValues) = Len(ChartAxes)
        /\ \A i \in 1..Len(ChartAxes) :
                /\ PlayerValues[i] = Expected(player_attrs, ChartAxes[i])
                /\ PlayerValues[i] \in 0..(20 * DisplayScale)
        /\ IF cluster_attrs \in {<<>>, NoAttrs} \/ ChartAxes = <<>>
           THEN Len(radar_fig.data) < 2
           ELSE /\ Len(radar_fig.data) = 2
                /\ radar_fig.data[2].theta = ChartAxes
                /\ Len(ClusterValues) = Len(ChartAxes)
                /\ \A i \in 1..Len(ChartAxes) :
                        /\ ClusterValues[i]
                                = Expected(cluster_attrs, ChartAxes[i])
                        /\ ClusterValues[i] \in 0..(20 * DisplayScale)

C11_Witness ==
    /\ gpc = "done"
    /\ ChartAxes = <<"Pas", "Tck">>
    /\ DictKeys(player_attrs) = <<"Tck", "Pas">>
    /\ DictKeys(cluster_attrs) = <<"Tck">>
    /\ PlayerValues = <<20 * DisplayScale, 0>>
    /\ ClusterValues = <<10 * DisplayScale, 14995>>

\* C12: without any preferred attribute the chart runs along the first 12
\* attributes of the player's mapping in insertion order, and the chart has
\* no axis only when the mapping is empty.
C12_FallbackNeverEmpty ==
    (gpc = "done") =>
        /\ (\A i \in 1..Len(player_attrs) :
                player_attrs[i][1] \notin Range(key_attrs))
            => ChartAxes =
                [i \in 1..(IF Len(player_attrs) < 12 THEN Len(player_attrs)
                           ELSE 12) |-> player_attrs[i][1]]
        /\ (ChartAxes = <<>>) <=> (player_attrs = <<>>)
        /\ Len(PlayerValues) = Len(ChartAxes)

C12_Witness ==
    /\ gpc = "done"
    /\ Len(player_attrs) = 13
    /\ player_attrs[13][1] = "Bra"
    /\ Len(ChartAxes) = 12
    /\ ChartAxes[1] = "Cnt"
    /\ ChartAxes[12] = "Agg"

\* a centroid row with all three fields
WellFormed(r) ==
    r.cluster # NaNNumber /\ r.attr # NaNCode /\ r.z # NaNNumber

\* C13: the store built from a table with a malformed row holds no key and
\* no value of that row, and is the store of the well-formed rows alone.
C13_MalformedExcluded ==
    (cpc = "built") =>
        /\ \A i \in 1..Len(centroids_dict) :
                /\ centroids_dict[i][1] # NaNNumber
                /\ \A k \in 1..Len(centroids_dict[i][2]) :
                        /\ centroids_dict[i][2][k][1] # NaNCode
                        /\ centroids_dict[i][2][k][2] # NaNNumber
        /\ centroids_dict =
                get_centroids_dict(SelectSeq(centroids_df, WellFormed))

\* C14: no core operation changes the player table or the centroid mapping
\* of the snapshot; the 'distance' column goes to a copy of the table.
C14_SnapshotImmutable ==
    [][/\ heap'[PlayersRef] = heap[PlayersRef]
       /\ heap'[CentroidsRef] = heap[CentroidsRef]]_vars

C14_Witness ==
    /\ last_call.op = "find_similar_players"
    /\ Len(heap[ResultRef]) = 1
    /\ heap[ResultRef][1].distance = DistScale
    /\ Len(heap[PlayersRef]) = 2
    /\ \A i \in 1..2 : "distance" \notin DOMAIN heap[PlayersRef][i]
    /\ heap[CentroidsRef] # <<>>

\* the row the card was last rendered for and the chart it got
CardRow == heap[PlayersRef][last_call.row]

CardFigure == heap[ResultRef]

C15_TiesInTableOrder ==
    (fpc = "done") =>
        /\ \A k, l \in 1..Len(similar) :
                (/\ k < l
                 /\ SquaredDistance(similar[k].index)
                        = SquaredDistance(similar[l].index))
                    => similar[k].index < similar[l].index
        /\ \A i \in Returned, j \in Candidates \ Returned :
                SquaredDistance(i) = SquaredDistance(j) => i < j

\* C16: returned clusters of equal score come in ascending cluster id, and of
\* the clusters with the score of the last returned one the lower ids are the
\* ones returned.
C16_TiesByClusterId ==
    (rpc = "done") =>
        /\ \A k, l \in 1..Len(top_probs) :
                (k < l /\ top_probs[k][2] = top_probs[l][2])
                    => top_probs[k][1] < top_probs[l][1]
        /\ \A c \in RankedClusters, d \in (0..4) \ RankedClusters :
                Score(c) = Score(d) => c < d

C16_Witness ==
    /\ rpc = "done"
    /\ Score(4) > Score(1)
    /\ Score(1) = Score(2)
    /\ Score(2) = Score(3)
    /\ Score(3) > Score(0)
    /\ top_probs = <<<<4, Score(4)>>, <<1, Score(1)>>, <<2, Score(2)>>>>

\* C19: for a player of the filtered table the neighbours found in the
\* filtered table are, row by row and distance by distance, the neighbours
\* found in the table as loaded.
C19_FilterKeepsNeighbours ==
    (fpc = "done") => similar = similar_unfiltered

C19_Witness ==
    /\ fpc = "done"
    /\ selected_clusters = {1}
    /\ Len(players_df) = 3
    /\ players_df[1].role_cluster = 0
    /\ player_row = players_df[2]
    /\ n_similar = 1
    /\ Len(similar) = 1
    /\ similar[1].index = 3
    /\ similar_unfiltered = similar


-----------------------------------------------------------------------------
(* The selection of the page, under SpecSession *)

\* the Name column of the table the current run filtered
FilteredNames ==
    LET df == FilterClusters(players_df, selected_clusters)
    IN  {df[i].Name : i \in 1..Len(df)}

\* C17: whenever a run reaches the player card, selected_player is None or
\* a name of that run's match list, hence a player of the filtered table;
\* it is None when the search text is empty or matches nothing; the card
\* never shows "Player not found in filtered data."
C17_SelectionInvariant ==
    (card # "none") =>
        /\ \/ session_state.selected_player = None
           \/ session_state.selected_player \in Range(matching_players)
        /\ (session_state.selected_player # None) =>
                session_state.selected_player \in FilteredNames
        /\ (search_query = <<>> \/ matching_players = <<>>) =>
                session_state.selected_player = None
        /\ card # "not_found"

\* a card is shown for one of several matches while a cluster is filtered
\* out: the selection came from a click and outlived the runs since
C17_Witness ==
    /\ card = "card"
    /\ Len(matching_players) > 1
    /\ session_state.selected_player \in Range(matching_players)
    /\ selected_clusters # AllClusters(players_df)

\* C18: the run in which the button of p is clicked leaves selected_player
\* = p and asks for a rerun; if that rerun has the same cluster filter and
\* the same search text, or the text p, it reaches the card with p still
\* selected.
C18_ClickSurvivesRerun ==
    [][ /\ rerun' =>
            /\ clicked' \in Range(matching_players')
            /\ session_state'.selected_player = clicked'
        /\ ( /\ rerun
             /\ selected_clusters' = selected_clusters
             /\ search_query' \in {search_query, clicked} ) =>
                /\ ~rerun'
                /\ session_state'.selected_player = clicked
                /\ card' = "card" ]_vars

\* the rerun after a click on one of several suggestions has shown the
\* card of the clicked player
C18_Witness ==
    /\ ~rerun
    /\ clicked # None
    /\ session_state.selected_player = clicked
    /\ card = "card"
    /\ Len(matching_players) > 1

=============================================================================
